---- MODULE Spec2Model ----
(***************************************************************************)
(* LockedIn session dashboard (streamlit_dashboard/app.py) and the fake    *)
(* session generator (streamlit_dashboard/generate_fake_sessions.py).      *)
(*                                                                         *)
(* The two programs share nothing but the log file sessions.jsonl.  The    *)
(* model holds a small POSIX file system (directory entries and inodes),   *)
(* the generator's main() and the dashboard's render pass, one action per  *)
(* statement group of app.py.                                              *)
(*                                                                         *)
(*   Spec      sequential use: main(N) runs to completion between passes   *)
(*   SpecRace  main(N) step by step, interleaved with a render pass        *)
(*   SpecGen   generate_session() over its whole range of random draws     *)
(***************************************************************************)
EXTENDS Integers, Sequences, FiniteSets, TLC

(* ------------------------------ bounds --------------------------------- *)
\* longest log file that exists before the programs run
MaxLines == 3
\* largest num_sessions passed to main()
MaxN == 2
\* number of generator runs
MaxRuns == 2
\* random.uniform(0.05, 0.45) is drawn on the grid k / RatioDen
RatioDen == 20

(* --------------------------- small helpers ----------------------------- *)
Min(a, b) == IF a < b THEN a ELSE b

Max(a, b) == IF a > b THEN a ELSE b

Range(s) == {s[i] : i \in DOMAIN s}

\* all sequences over S of length 0..n
SeqUpTo(S, n) == UNION {[1..k -> S] : k \in 0..n}

(* ------------------------- timestamps as text -------------------------- *)
\* A timestamp string is a sequence of pieces: an ISO-8601 date-time body
\* (carrying the instant it denotes, in seconds), the letter Z, or any other
\* text.  A datetime is [ok, t]; ok = FALSE is Python's None.
IsoBody(t) == [c |-> "iso", t |-> t]

LetterZ == [c |-> "Z", t |-> 0]

Junk == [c |-> "x", t |-> 0]

None == [ok |-> FALSE, t |-> 0]

Datetime(t) == [ok |-> TRUE, t |-> t]

\* datetime.isoformat(timespec="seconds"): the body alone, no Z, no offset
isoformat(dt) == <<IsoBody(dt.t)>>

\* str.replace("Z", ""): every Z goes, wherever it stands
RECURSIVE replace_Z(_)
replace_Z(x) ==
    IF x = <<>> THEN <<>>
    ELSE IF Head(x).c = "Z" THEN replace_Z(Tail(x))
    ELSE <<Head(x)>> \o replace_Z(Tail(x))

\* datetime.fromisoformat succeeds on exactly one ISO body
IsIso(x) == Len(x) = 1 /\ x[1].c = "iso"

fromisoformat(x) == Datetime(x[1].t)

(* ------------------------------ records -------------------------------- *)
\* A JSON value as json.loads returns it.  type "dict" is an object; keys is
\* the set of keys it carries; a field outside keys holds a filler value.
\* An inner object (mostCommonDistraction, mostUsedAppActivity) has the same
\* layout: type "dict" with its keys, or type "str" for any non-object.
NoObj == [type |-> "str", keys |-> {}, app |-> "", activity |-> "", occurrences |-> 0]

Distraction(activity, occurrences) ==
    [type |-> "dict", keys |-> {"activity", "occurrences"}, app |-> "",
     activity |-> activity, occurrences |-> occurrences]

AppActivity(app, activity, occurrences) ==
    [type |-> "dict", keys |-> {"app", "activity", "occurrences"}, app |-> app,
     activity |-> activity, occurrences |-> occurrences]

NoTs == [run |-> 0, seq |-> 0]

EmptyDict ==
    [type |-> "dict", keys |-> {}, ts |-> NoTs,
     sessionStart |-> <<>>, sessionEnd |-> <<>>,
     totalDurationSec |-> 0, totalUnfocusedSec |-> 0, focusRatio |-> 0,
     longestUnfocusedStreakSec |-> 0,
     mostCommonDistraction |-> NoObj, mostUsedAppActivity |-> NoObj,
     sessionStart_dt |-> None, sessionEnd_dt |-> None]

\* a JSON value that is not an object (a number, a string, a list, null)
Scalar == [EmptyDict EXCEPT !.type = "int"]

SessionKeys ==
    {"sessionStart", "sessionEnd", "totalDurationSec", "totalUnfocusedSec",
     "focusRatio", "longestUnfocusedStreakSec", "mostCommonDistraction",
     "mostUsedAppActivity"}

(* --------------------------- lines of the log -------------------------- *)
\* A line of text is blank, malformed (json.loads raises) or the JSON text of
\* a value.
BlankLine == [kind |-> "blank", value |-> Scalar]

MalformedLine == [kind |-> "malformed", value |-> Scalar]

\* bytes that are not UTF-8: reading the line raises UnicodeDecodeError
UndecodableLine == [kind |-> "undecodable", value |-> Scalar]

\* json.dumps(s) + "\n"
json_dumps(s) == [kind |-> "json", value |-> s]

\* not line.strip()
IsBlank(line) == line.kind = "blank"

\* json.loads(line) raises on anything that is not JSON text
json_loads_raises(line) == line.kind # "json"

json_loads(line) == line.value

(* ------------------------------ generator ------------------------------ *)
DISTRACTIONS == <<"eyes closed", "look away", "watch phone", "chat", "music", "stretch">>

APPS ==
    << [app |-> "VS Code", acts |-> <<"edit code", "read file", "debug">>],
       [app |-> "Chrome", acts |-> <<"YouTube", "Docs", "Search">>],
       [app |-> "Terminal", acts |-> <<"run build", "git status", "install deps">>],
       [app |-> "Slack", acts |-> <<"reply", "read thread">>],
       [app |-> "Figma", acts |-> <<"browse designs", "inspect">> ] >>

\* datetime.now(), in seconds
Now == 30 * 86400

\* the values random.uniform(0.05, 0.45) takes on the grid: k / RatioDen
RatioGrid == {k \in 0..RatioDen : 5 * RatioDen <= 100 * k /\ 100 * k <= 45 * RatioDen}

\* int(total_sec * unfocused_ratio)
UnfocusedSec(total_sec, k) == (total_sec * k) \div RatioDen

\* a slip: max for min in the upper end of the streak's range
StreakHiMaxForMin(total_unfocused_sec) == Max(600, Max(30, total_unfocused_sec \div 3))

\* min(600, max(30, total_unfocused_sec // 3))
StreakHi(total_unfocused_sec) == Min(600, Max(30, total_unfocused_sec \div 3))

\* the values random.randint(15, hi) can return; empty: randint raises ValueError
StreakRange(total_unfocused_sec) ==
    IF total_unfocused_sec > 0 THEN 15..StreakHi(total_unfocused_sec) ELSE {0}

\* round((total_sec - total_unfocused_sec) / total_sec, 3), in thousandths
\* (a tie is rounded up)
focusRatio(total_sec, total_unfocused_sec) ==
    (2000 * (total_sec - total_unfocused_sec) + total_sec) \div (2 * total_sec)

\* One call's random draws: days, hours, minutes, duration_min, k (the ratio),
\* streak, app, act, distraction, occurrences, app_occurrences.
generate_session(r) ==
    LET start_dt == Datetime(Now - (r.days * 86400 + r.hours * 3600 + r.minutes * 60))
        total_sec == r.duration_min * 60
        total_unfocused_sec == UnfocusedSec(total_sec, r.k)
        end_dt == Datetime(start_dt.t + total_sec)
    IN  [EmptyDict EXCEPT
            !.keys = SessionKeys,
            !.sessionStart = isoformat(start_dt),
            !.sessionEnd = isoformat(end_dt),
            !.totalDurationSec = total_sec,
            !.totalUnfocusedSec = total_unfocused_sec,
            !.focusRatio = focusRatio(total_sec, total_unfocused_sec),
            !.longestUnfocusedStreakSec = r.streak,
            !.mostCommonDistraction = Distraction(DISTRACTIONS[r.distraction], r.occurrences),
            !.mostUsedAppActivity =
                AppActivity(APPS[r.app].app, APPS[r.app].acts[r.act], r.app_occurrences)]

\* the draws of one call, as a record
Draw(days, hours, minutes, duration_min, k, streak, app, act, distraction) ==
    [days |-> days, hours |-> hours, minutes |-> minutes,
     duration_min |-> duration_min, k |-> k, streak |-> streak,
     app |-> app, act |-> act, distraction |-> distraction,
     occurrences |-> 1, app_occurrences |-> 2]

\* The draws main() makes in Spec and SpecRace: the two ends of every range
\* (SpecGen goes through the ranges in full).
GenDraws ==
    {r \in {Draw(0, 0, 0, 15, CHOOSE k \in RatioGrid : \A j \in RatioGrid : k <= j, 15, 1, 1, 1),
            Draw(9, 10, 59, 60, CHOOSE k \in RatioGrid : \A j \in RatioGrid : k >= j, 30, 5, 2, 6)} :
        r.streak \in StreakRange(UnfocusedSec(r.duration_min * 60, r.k))}

\* {"ts": datetime.now().isoformat(...), **s}: the stamp is abstracted to the
\* run that wrote the record and its position in that run
with_ts(sess, run, seq) ==
    [sess EXCEPT !.keys = @ \cup {"ts"}, !.ts = [run |-> run, seq |-> seq]]

(* ----------------------------- file system ----------------------------- *)
\* repo_root.parent / "json-logs" / "sessions.jsonl", repo_root / "json-logs" / "sessions.jsonl"
sessions_candidates == <<"../json-logs/sessions.jsonl", "json-logs/sessions.jsonl">>

\* repo_root / "json-logs" / "sessions.jsonl" (repo_root is parents[1] in both files)
out_path == "json-logs/sessions.jsonl"

Paths == Range(sessions_candidates) \cup {out_path}

\* inode 0: no file.  Inodes 1 and 2 hold the logs that exist at the start,
\* inode 2 + r is the file run r creates.
NoInode == 0

Inodes == 1..(2 + MaxRuns)

NoHandle == [ino |-> NoInode, pos |-> 0]

NoPath == ""

VARIABLES
    fs,             \* directory: path -> inode (NoInode: the path does not exist)
    disk,           \* inode -> the lines of the file
    gpc,            \* generator: where main() stands
    num_sessions,   \* generator: main's argument
    gi,             \* generator: lines written so far by the loop
    gf,             \* generator: inode of the open output file
    runs,           \* generator: completed or started runs (numbers the stamps)
    s,              \* generator: the last generate_session() result
    pc,             \* dashboard: where the script stands
    clicked,        \* dashboard: this run of the script was started by the button
    sessions_path, f, records, df,
    total_hours, avg_focus, longest, df_ts, distractions, apps, top_d, top_a, view,
    ui,             \* dashboard: the elements rendered so far, in order
    warning,        \* dashboard: the st.warning shown
    error,          \* dashboard: the uncaught exception that ended the pass
    seen_runs       \* dashboard: generator runs finished when the pass began

fsvars == <<fs, disk>>

genvars == <<gpc, num_sessions, gi, gf, runs, s>>

scriptvars ==
    <<sessions_path, f, records, df, total_hours, avg_focus, longest, df_ts,
      distractions, apps, top_d, top_a, view, ui, warning, error>>

dashvars == <<pc, clicked, scriptvars, seen_runs>>

vars == <<fsvars, genvars, dashvars>>

(* ------------------------ file system operations ----------------------- *)
\* Path.exists()
exists(dir, p) == dir[p] # NoInode

\* a slip: the old file is left in place
unlink_skipped(dir, p) == dir

\* Path.unlink(): the directory entry goes; the inode lives on while open
unlink(dir, p) == [dir EXCEPT ![p] = NoInode]

\* open(p, "a") creates the file when the path does not exist
open_a(dir, p, fresh) == IF exists(dir, p) THEN dir ELSE [dir EXCEPT ![p] = fresh]

\* an inode no path names and no reader holds open is gone
reclaim(dsk, dir, held) ==
    [i \in Inodes |-> IF i \in Range(dir) \/ i = held THEN dsk[i] ELSE <<>>]

(* ------------------------ generator: main(N) --------------------------- *)
\* the line the loop writes for its seq-th record
written_line(sess, run, seq) == json_dumps(with_ts(sess, run, seq))

\* main(num_sessions), start to end with nothing in between (Spec).  The
\* directory and the log after it: exists/unlink, open("a"), N writes, close.
Main(n) ==
    /\ gpc = "idle"
    /\ pc \in {"idle", "stopped", "done", "error"}
    /\ runs < MaxRuns
    /\ \E ds \in [1..n -> GenDraws] :
          LET run == runs + 1
              dir1 == IF exists(fs, out_path) THEN unlink(fs, out_path) ELSE fs
              dsk1 == reclaim(disk, dir1, NoInode)
              dir2 == open_a(dir1, out_path, 2 + run)
              out == dir2[out_path]
              lines == [j \in 1..n |-> written_line(generate_session(ds[j]), run, j)]
          IN  /\ fs' = dir2
              /\ disk' = [dsk1 EXCEPT ![out] = @ \o lines]
              /\ s' = IF n = 0 THEN s ELSE generate_session(ds[n])
              /\ runs' = run
    /\ num_sessions' = n
    /\ gi' = n
    /\ UNCHANGED <<gpc, gf, dashvars>>

\* main(num_sessions) one statement at a time (SpecRace)
GenStart(n) ==
    /\ gpc = "idle"
    /\ runs < MaxRuns
    /\ gpc' = "exists"
    /\ num_sessions' = n
    /\ runs' = runs + 1
    /\ gi' = 0
    /\ UNCHANGED <<fsvars, gf, s, dashvars>>

\* if out_path.exists():
GenExists ==
    /\ gpc = "exists"
    /\ gpc' = IF exists(fs, out_path) THEN "unlink" ELSE "open"
    /\ UNCHANGED <<fsvars, num_sessions, gi, gf, runs, s, dashvars>>

\* out_path.unlink()
GenUnlink ==
    /\ gpc = "unlink"
    /\ fs' = unlink(fs, out_path)
    /\ disk' = reclaim(disk, fs', f.ino)
    /\ gpc' = "open"
    /\ UNCHANGED <<num_sessions, gi, gf, runs, s, dashvars>>

\* with out_path.open("a", encoding="utf-8") as f:
GenOpen ==
    /\ gpc = "open"
    /\ fs' = open_a(fs, out_path, 2 + runs)
    /\ gf' = fs'[out_path]
    /\ gpc' = "loop"
    /\ UNCHANGED <<disk, num_sessions, gi, runs, s, dashvars>>

\* one turn of the loop: generate_session(), stamp, write.  A line is taken to
\* reach the file when written: the buffer may be flushed after any line.
GenWrite ==
    /\ gpc = "loop"
    /\ gi < num_sessions
    /\ \E d \in GenDraws :
          /\ s' = generate_session(d)
          /\ disk' = [disk EXCEPT ![gf] = Append(@, written_line(s', runs, gi + 1))]
    /\ gi' = gi + 1
    /\ UNCHANGED <<fs, gpc, num_sessions, gf, runs, dashvars>>

\* the loop is over: the file is closed and main returns
GenClose ==
    /\ gpc = "loop"
    /\ gi = num_sessions
    /\ gf' = NoInode
    /\ gpc' = "idle"
    /\ UNCHANGED <<fsvars, num_sessions, gi, runs, s, dashvars>>

\* generate_session() alone, over every draw it can make (SpecGen).  An empty
\* range for the streak makes random.randint raise ValueError.
GenerateSession ==
    /\ gpc = "idle"
    /\ \E duration_min \in 15..60, k \in RatioGrid :
          LET range == StreakRange(UnfocusedSec(duration_min * 60, k))
          IN  IF range = {}
              THEN /\ gpc' = "ValueError"
                   /\ s' = s
              ELSE /\ gpc' = "returned"
                   /\ \E streak \in range :
                         s' = generate_session(Draw(0, 0, 0, duration_min, k, streak, 1, 1, 1))
    /\ UNCHANGED <<fsvars, num_sessions, gi, gf, runs, dashvars>>

(* --------------------------- dashboard: data --------------------------- *)
\* fractions stand for floats: num / den; den = 0 is inf or NaN (a pandas
\* column divides by zero without raising)
Frac(num, den) == [num |-> num, den |-> den]

FracEq(a, b) == a.num * b.den = b.num * a.den /\ (a.den = 0) = (b.den = 0)

NoFrac == Frac(0, 0)

\* r.get(key) for a text field: the text, or None when the key is absent
get(r, key) ==
    IF key \in r.keys
    THEN [isstr |-> TRUE, text |-> IF key = "sessionStart" THEN r.sessionStart ELSE r.sessionEnd]
    ELSE [isstr |-> FALSE, text |-> <<>>]

\* to_dt: any exception (None has no replace, fromisoformat's ValueError)
\* gives None
to_dt(x) ==
    IF x.isstr /\ IsIso(replace_Z(x.text)) THEN fromisoformat(replace_Z(x.text)) ELSE None

\* for r in records: r["sessionStart_dt"] = ...; r["sessionEnd_dt"] = ...
normalize(r) ==
    [r EXCEPT !.keys = @ \cup {"sessionStart_dt", "sessionEnd_dt"},
              !.sessionStart_dt = to_dt(get(r, "sessionStart")),
              !.sessionEnd_dt = to_dt(get(r, "sessionEnd"))]

\* pd.DataFrame.from_records: the columns are the keys of all the records
columns(frame) == UNION {frame[i].keys : i \in DOMAIN frame}

number(r, col) ==
    CASE col = "totalDurationSec" -> r.totalDurationSec
      [] col = "totalUnfocusedSec" -> r.totalUnfocusedSec
      [] col = "focusRatio" -> r.focusRatio
      [] OTHER -> r.longestUnfocusedStreakSec

\* df[col].sum(): a row without the key holds NaN, which sum() skips
RECURSIVE sum(_, _)
sum(frame, col) ==
    IF frame = <<>> THEN 0
    ELSE (IF col \in Head(frame).keys THEN number(Head(frame), col) ELSE 0)
         + sum(Tail(frame), col)

\* df[col].max(): NaN is skipped; the column exists, so a value does
max(frame, col) ==
    LET vals == {number(frame[i], col) : i \in {j \in DOMAIN frame : col \in frame[j].keys}}
    IN  CHOOSE v \in vals : \A w \in vals : w <= v

\* a slip: the guard tests for a non-zero denominator only
avg_focus_nonzero(frame) ==
    LET denom == sum(frame, "totalDurationSec")
    IN  IF denom # 0 THEN Frac(denom - sum(frame, "totalUnfocusedSec"), denom) ELSE Frac(1, 1)

\* (1 - (df["totalUnfocusedSec"].sum() / denom)) if denom > 0 else 1.0
avg_focus_of(frame) ==
    LET denom == sum(frame, "totalDurationSec")
    IN  IF denom > 0 THEN Frac(denom - sum(frame, "totalUnfocusedSec"), denom) ELSE Frac(1, 1)

\* df.dropna(subset=["sessionEnd_dt"]): the rows (by index) that stay
dropna(frame) == {i \in DOMAIN frame : frame[i].sessionEnd_dt.ok}

\* (1 - totalUnfocusedSec / totalDurationSec) * 100 of one row
focusPct(r) ==
    IF {"totalUnfocusedSec", "totalDurationSec"} \subseteq r.keys
    THEN Frac((r.totalDurationSec - r.totalUnfocusedSec) * 100, r.totalDurationSec)
    ELSE NoFrac

\* .sort_values("sessionEnd_dt"): the orders an unstable sort may give
sort_values(frame, rows) ==
    {p \in [1..Cardinality(rows) -> rows] :
        /\ \A i, j \in DOMAIN p : i # j => p[i] # p[j]
        /\ \A i, j \in DOMAIN p :
              i < j => frame[p[i]].sessionEnd_dt.t <= frame[p[j]].sessionEnd_dt.t}

\* a slip: the activity is read without the isinstance test
activity_unchecked(x) ==
    IF x.type = "dict" /\ "activity" \notin x.keys
    THEN [none |-> TRUE, v |-> ""]
    ELSE [none |-> FALSE, v |-> x.activity]

\* lambda x: x.get("activity") if isinstance(x, dict) else None
activity_of(x) ==
    IF x.type = "dict" /\ "activity" \in x.keys
    THEN [none |-> FALSE, v |-> x.activity]
    ELSE [none |-> TRUE, v |-> ""]

\* x.get("app") + " - " + x.get("activity"): None + str raises TypeError
label_raises(x) == x.type = "dict" /\ ~({"app", "activity"} \subseteq x.keys)

label_of(x) ==
    IF x.type = "dict"
    THEN [none |-> FALSE, v |-> <<x.app, x.activity>>]
    ELSE [none |-> TRUE, v |-> <<"", "">>]

\* df[col].dropna().apply(fn): one value per row that carries the key
RECURSIVE extract_distractions(_)
extract_distractions(frame) ==
    IF frame = <<>> THEN <<>>
    ELSE (IF "mostCommonDistraction" \in Head(frame).keys
          THEN <<activity_of(Head(frame).mostCommonDistraction)>> ELSE <<>>)
         \o extract_distractions(Tail(frame))

RECURSIVE extract_apps(_)
extract_apps(frame) ==
    IF frame = <<>> THEN <<>>
    ELSE (IF "mostUsedAppActivity" \in Head(frame).keys
          THEN <<label_of(Head(frame).mostUsedAppActivity)>> ELSE <<>>)
         \o extract_apps(Tail(frame))

\* series.value_counts(): one row per distinct value that is not None
value_counts(series) ==
    {[value |-> x.v, count |-> Cardinality({i \in DOMAIN series : series[i] = x})] :
        x \in {y \in Range(series) : ~y.none}}

show_cols ==
    {"sessionStart", "sessionEnd", "totalDurationSec", "totalUnfocusedSec", "focusRatio",
     "longestUnfocusedStreakSec", "mostCommonDistraction", "mostUsedAppActivity"}

\* one row of view: the shown columns and focusPct = (focusRatio * 100).round(1)
view_row(r) ==
    [row |-> [r EXCEPT !.keys = @ \cap show_cols, !.ts = NoTs,
                       !.sessionStart_dt = None, !.sessionEnd_dt = None],
     focusPct |-> IF "focusRatio" \in r.keys THEN Frac(r.focusRatio, 10) ELSE NoFrac]

\* a slip: the last existing candidate is taken
last_existing(candidates, dir) ==
    LET found == {i \in DOMAIN candidates : exists(dir, candidates[i])}
    IN  IF found = {} THEN NoPath
        ELSE candidates[CHOOSE i \in found : \A j \in found : j <= i]

\* next((p for p in sessions_candidates if p.exists()), None)
first_existing(candidates, dir) ==
    LET found == {i \in DOMAIN candidates : exists(dir, candidates[i])}
    IN  IF found = {} THEN NoPath
        ELSE candidates[CHOOSE i \in found : \A j \in found : i <= j]

NoWarning == [text |-> "", paths |-> <<>>]

\* the st.warning of lines 52-57: it names both candidates
missing_warning ==
    [text |-> "No sessions.jsonl found. Expected at one of:", paths |-> sessions_candidates]

\* the st.warning of line 72
empty_warning == [text |-> "No valid session records in sessions.jsonl", paths |-> <<>>]

(* -------------------------- dashboard: script -------------------------- *)
Terminal == {"stopped", "done", "error"}

\* Streamlit runs the script from the top with fresh variables
FreshScript ==
    /\ sessions_path' = NoPath
    /\ f' = NoHandle
    /\ records' = <<>>
    /\ df' = <<>>
    /\ total_hours' = NoFrac
    /\ avg_focus' = NoFrac
    /\ longest' = 0
    /\ df_ts' = <<>>
    /\ distractions' = <<>>
    /\ apps' = <<>>
    /\ top_d' = {}
    /\ top_a' = {}
    /\ view' = <<>>
    /\ ui' = <<>>
    /\ warning' = NoWarning
    /\ error' = ""
    /\ seen_runs' = runs

\* an uncaught exception ends the pass
Raise(exception) ==
    /\ pc' = "error"
    /\ error' = exception

\* the page is opened (or reloaded): a render pass begins
PageLoad ==
    /\ pc \in {"idle"} \cup Terminal
    /\ pc' = "discover"
    /\ clicked' = FALSE
    /\ FreshScript
    /\ UNCHANGED <<fsvars, genvars>>

\* the user presses "Refresh data": the script runs with the button set
ClickRefresh ==
    /\ pc \in Terminal
    /\ pc' = "discover"
    /\ clicked' = TRUE
    /\ FreshScript
    /\ UNCHANGED <<fsvars, genvars>>

\* sessions_path = next((p for p in sessions_candidates if p.exists()), None)
Discover ==
    /\ pc = "discover"
    /\ sessions_path' = first_existing(sessions_candidates, fs)
    /\ pc' = "button"
    /\ UNCHANGED <<fsvars, genvars, clicked, f, records, df, total_hours, avg_focus,
                   longest, df_ts, distractions, apps, top_d, top_a, view, ui, warning,
                   error, seen_runs>>

\* if st.sidebar.button("Refresh data"): st.rerun()
SidebarButton ==
    /\ pc = "button"
    /\ IF clicked
       THEN /\ pc' = "discover"
            /\ clicked' = FALSE
            /\ FreshScript
       ELSE /\ pc' = "check_path"
            /\ UNCHANGED <<clicked, scriptvars, seen_runs>>
    /\ UNCHANGED <<fsvars, genvars>>

\* if not sessions_path: st.warning(...); st.stop()
CheckPath ==
    /\ pc = "check_path"
    /\ IF sessions_path = NoPath
       THEN /\ warning' = missing_warning
            /\ ui' = Append(ui, "warning")
            /\ pc' = "stopped"
       ELSE /\ pc' = "open"
            /\ UNCHANGED <<warning, ui>>
    /\ UNCHANGED <<fsvars, genvars, clicked, sessions_path, f, records, df, total_hours,
                   avg_focus, longest, df_ts, distractions, apps, top_d, top_a, view,
                   error, seen_runs>>

\* with sessions_path.open("r", encoding="utf-8") as f:
Open ==
    /\ pc = "open"
    /\ IF exists(fs, sessions_path)
       THEN /\ f' = [ino |-> fs[sessions_path], pos |-> 0]
            /\ pc' = "read"
            /\ error' = error
       ELSE /\ Raise("FileNotFoundError")
            /\ f' = f
    /\ UNCHANGED <<fsvars, genvars, clicked, sessions_path, records, df, total_hours,
                   avg_focus, longest, df_ts, distractions, apps, top_d, top_a, view, ui,
                   warning, seen_runs>>

\* a slip: a line json.loads rejects is kept all the same
load_keeps_malformed(recs, line) ==
    IF line.kind = "json" \/ line.kind = "malformed" THEN Append(recs, json_loads(line))
    ELSE recs

\* the body of the for loop over one line of text
load(recs, line) ==
    IF IsBlank(line) THEN recs
    ELSE IF json_loads_raises(line) THEN recs
    ELSE Append(recs, json_loads(line))

\* for line in f: one more line is read; bytes that do not decode raise
ReadLine ==
    /\ pc = "read"
    /\ f.pos < Len(disk[f.ino])
    /\ LET line == disk[f.ino][f.pos + 1]
       IN  IF line.kind = "undecodable"
           THEN /\ Raise("UnicodeDecodeError")
                /\ f' = NoHandle
                /\ disk' = reclaim(disk, fs, NoInode)
                /\ records' = records
           ELSE /\ records' = load(records, line)
                /\ f' = [f EXCEPT !.pos = @ + 1]
                /\ UNCHANGED <<pc, error, disk>>
    /\ UNCHANGED <<fs, genvars, clicked, sessions_path, df, total_hours, avg_focus,
                   longest, df_ts, distractions, apps, top_d, top_a, view, ui, warning,
                   seen_runs>>

\* the read returns nothing more: the loop ends and the file is closed
EndOfFile ==
    /\ pc = "read"
    /\ f.pos >= Len(disk[f.ino])
    /\ f' = NoHandle
    /\ disk' = reclaim(disk, fs, NoInode)
    /\ pc' = "check_records"
    /\ UNCHANGED <<fs, genvars, clicked, sessions_path, records, df, total_hours,
                   avg_focus, longest, df_ts, distractions, apps, top_d, top_a, view, ui,
                   warning, error, seen_runs>>

\* if not records: st.warning(...); st.stop()
CheckRecords ==
    /\ pc = "check_records"
    /\ IF records = <<>>
       THEN /\ warning' = empty_warning
            /\ ui' = Append(ui, "warning")
            /\ pc' = "stopped"
       ELSE /\ pc' = "normalize"
            /\ UNCHANGED <<warning, ui>>
    /\ UNCHANGED <<fsvars, genvars, clicked, sessions_path, f, records, df, total_hours,
                   avg_focus, longest, df_ts, distractions, apps, top_d, top_a, view,
                   error, seen_runs>>

\* for r in records: ...; df = pd.DataFrame.from_records(records).  r.get on
\* a value that is not a dict raises AttributeError.
Normalize ==
    /\ pc = "normalize"
    /\ IF \E i \in DOMAIN records : records[i].type # "dict"
       THEN /\ Raise("AttributeError")
            /\ UNCHANGED <<records, df>>
       ELSE /\ records' = [i \in DOMAIN records |-> normalize(records[i])]
            /\ df' = records'
            /\ pc' = "col1"
            /\ error' = error
    /\ UNCHANGED <<fsvars, genvars, clicked, sessions_path, f, total_hours, avg_focus,
                   longest, df_ts, distractions, apps, top_d, top_a, view, ui, warning,
                   seen_runs>>

(* -------------------------- dashboard: render -------------------------- *)
\* the header and the first card: "Total sessions", len(df)
Col1 ==
    /\ pc = "col1"
    /\ ui' = ui \o <<"header", "card_total_sessions">>
    /\ pc' = "col2"
    /\ UNCHANGED <<fsvars, genvars, clicked, sessions_path, f, records, df, total_hours,
                   avg_focus, longest, df_ts, distractions, apps, top_d, top_a, view,
                   warning, error, seen_runs>>

\* total_hours = df["totalDurationSec"].sum() / 3600; df[col] raises KeyError
\* when no record carries the key
Col2 ==
    /\ pc = "col2"
    /\ IF "totalDurationSec" \in columns(df)
       THEN /\ total_hours' = Frac(sum(df, "totalDurationSec"), 3600)
            /\ ui' = Append(ui, "card_total_time")
            /\ pc' = "col3"
            /\ error' = error
       ELSE /\ Raise("KeyError: totalDurationSec")
            /\ UNCHANGED <<total_hours, ui>>
    /\ UNCHANGED <<fsvars, genvars, clicked, sessions_path, f, records, df, avg_focus,
                   longest, df_ts, distractions, apps, top_d, top_a, view, warning,
                   seen_runs>>

\* denom = ...; avg_focus = ... if denom > 0 else 1.0
Col3 ==
    /\ pc = "col3"
    /\ IF "totalUnfocusedSec" \in columns(df)
       THEN /\ avg_focus' = avg_focus_of(df)
            /\ ui' = Append(ui, "card_avg_focus")
            /\ pc' = "col4"
            /\ error' = error
       ELSE /\ Raise("KeyError: totalUnfocusedSec")
            /\ UNCHANGED <<avg_focus, ui>>
    /\ UNCHANGED <<fsvars, genvars, clicked, sessions_path, f, records, df, total_hours,
                   longest, df_ts, distractions, apps, top_d, top_a, view, warning,
                   seen_runs>>

\* longest = df["longestUnfocusedStreakSec"].max()
Col4 ==
    /\ pc = "col4"
    /\ IF "longestUnfocusedStreakSec" \in columns(df)
       THEN /\ longest' = max(df, "longestUnfocusedStreakSec")
            /\ ui' = Append(ui, "card_longest")
            /\ pc' = "time_series"
            /\ error' = error
       ELSE /\ Raise("KeyError: longestUnfocusedStreakSec")
            /\ UNCHANGED <<longest, ui>>
    /\ UNCHANGED <<fsvars, genvars, clicked, sessions_path, f, records, df, total_hours,
                   avg_focus, df_ts, distractions, apps, top_d, top_a, view, warning,
                   seen_runs>>

\* if "sessionEnd_dt" in df: df_ts = df.dropna(...).sort_values(...); focusPct;
\* the line chart.  Normalize gave every record the key, so the test holds.
TimeSeries ==
    /\ pc = "time_series"
    /\ \E order \in sort_values(df, dropna(df)) :
          df_ts' = [i \in DOMAIN order |->
                        [row |-> df[order[i]], focusPct |-> focusPct(df[order[i]])]]
    /\ ui' = Append(ui, "chart_focus")
    /\ pc' = "extract"
    /\ UNCHANGED <<fsvars, genvars, clicked, sessions_path, f, records, df, total_hours,
                   avg_focus, longest, distractions, apps, top_d, top_a, view, warning,
                   error, seen_runs>>

\* distractions = df["mostCommonDistraction"].dropna().apply(...)
\* apps = df["mostUsedAppActivity"].dropna().apply(...)
Extract ==
    /\ pc = "extract"
    /\ IF "mostCommonDistraction" \notin columns(df)
       THEN /\ Raise("KeyError: mostCommonDistraction")
            /\ UNCHANGED <<distractions, apps>>
       ELSE IF "mostUsedAppActivity" \notin columns(df)
       THEN /\ Raise("KeyError: mostUsedAppActivity")
            /\ distractions' = extract_distractions(df)
            /\ apps' = apps
       ELSE IF \E i \in DOMAIN df : /\ "mostUsedAppActivity" \in df[i].keys
                                    /\ label_raises(df[i].mostUsedAppActivity)
       THEN /\ Raise("TypeError")
            /\ distractions' = extract_distractions(df)
            /\ apps' = apps
       ELSE /\ distractions' = extract_distractions(df)
            /\ apps' = extract_apps(df)
            /\ pc' = "colA"
            /\ error' = error
    /\ UNCHANGED <<fsvars, genvars, clicked, sessions_path, f, records, df, total_hours,
                   avg_focus, longest, df_ts, top_d, top_a, view, ui, warning, seen_runs>>

\* top_d = distractions.value_counts().reset_index(); the bar chart
ColA ==
    /\ pc = "colA"
    /\ top_d' = value_counts(distractions)
    /\ ui' = Append(ui, "chart_distractions")
    /\ pc' = "colB"
    /\ UNCHANGED <<fsvars, genvars, clicked, sessions_path, f, records, df, total_hours,
                   avg_focus, longest, df_ts, distractions, apps, top_a, view, warning,
                   error, seen_runs>>

\* top_a = apps.value_counts().reset_index(); the bar chart
ColB ==
    /\ pc = "colB"
    /\ top_a' = value_counts(apps)
    /\ ui' = Append(ui, "chart_apps")
    /\ pc' = "table"
    /\ UNCHANGED <<fsvars, genvars, clicked, sessions_path, f, records, df, total_hours,
                   avg_focus, longest, df_ts, distractions, apps, top_d, view, warning,
                   error, seen_runs>>

\* view = df[show_cols].copy(); view["focusPct"] = ...; st.dataframe(view)
Table ==
    /\ pc = "table"
    /\ IF show_cols \subseteq columns(df)
       THEN /\ view' = [i \in DOMAIN df |-> view_row(df[i])]
            /\ ui' = Append(ui, "table")
            /\ pc' = "done"
            /\ error' = error
       ELSE /\ Raise("KeyError: not in index")
            /\ UNCHANGED <<view, ui>>
    /\ UNCHANGED <<fsvars, genvars, clicked, sessions_path, f, records, df, total_hours,
                   avg_focus, longest, df_ts, distractions, apps, top_d, top_a, warning,
                   seen_runs>>

Pass ==
    \/ PageLoad
    \/ ClickRefresh
    \/ Discover
    \/ SidebarButton
    \/ CheckPath
    \/ Open
    \/ ReadLine
    \/ EndOfFile
    \/ CheckRecords
    \/ Normalize
    \/ Col1
    \/ Col2
    \/ Col3
    \/ Col4
    \/ TimeSeries
    \/ Extract
    \/ ColA
    \/ ColB
    \/ Table

(* ------------------------- logs at the start --------------------------- *)
\* a session record as a recorder writes it, every key present
Session(duration, unfocused, streak, ratio, end_text, distraction) ==
    [EmptyDict EXCEPT
        !.keys = SessionKeys,
        !.sessionStart = <<IsoBody(0)>>,
        !.sessionEnd = end_text,
        !.totalDurationSec = duration,
        !.totalUnfocusedSec = unfocused,
        !.focusRatio = ratio,
        !.longestUnfocusedStreakSec = streak,
        !.mostCommonDistraction = distraction,
        !.mostUsedAppActivity = AppActivity("Chrome", "Docs", 3)]

without(r, key) == [r EXCEPT !.keys = @ \ {key}]

\* an hour, a quarter of it unfocused; ends at 7200
SessionA == Session(3600, 900, 300, 750, <<IsoBody(7200)>>, Distraction("chat", 2))

\* half an hour, half of it unfocused; ends at 3600, written with a trailing Z
SessionB == Session(1800, 900, 120, 500, <<IsoBody(3600), LetterZ>>, Distraction("music", 1))

\* no mostCommonDistraction, and an end that is no timestamp
SessionNoDistraction ==
    without(Session(1800, 0, 0, 1000, <<Junk>>, NoObj), "mostCommonDistraction")

\* a session of no length, no sessionEnd, and a distraction that is a string
SessionZero ==
    without(Session(0, 0, 0, 0, <<>>, [NoObj EXCEPT !.activity = "chat"]), "sessionEnd")

\* a negative duration (the clock went back while recording)
SessionNegative == Session(-1800, 900, 60, 1500, <<IsoBody(1800)>>, Distraction("chat", 1))

\* a Z in front of the timestamp instead of behind it
SessionLeadingZ == Session(600, 60, 30, 900, <<LetterZ, IsoBody(5400)>>, Distraction("stretch", 1))

\* an app object without its "app" key
SessionNoApp ==
    [Session(600, 0, 0, 1000, <<IsoBody(900)>>, Distraction("music", 1)) EXCEPT
        !.mostUsedAppActivity = [AppActivity("", "Docs", 3) EXCEPT !.keys = @ \ {"app"}]]

\* lines that may stand anywhere in a log
SampleLines ==
    {BlankLine, MalformedLine, json_dumps(SessionA), json_dumps(SessionB),
     json_dumps(SessionNoDistraction), json_dumps(SessionZero), json_dumps(SessionNegative)}

\* lines that are tried alone, and before and after one good record
RareLines ==
    {UndecodableLine, json_dumps(Scalar), json_dumps(EmptyDict), json_dumps(SessionNoApp),
     json_dumps(SessionLeadingZ)}

\* the logs that may lie at the second candidate (the generator's out_path)
SampleLogs ==
    SeqUpTo(SampleLines, MaxLines)
        \cup {<<x>> : x \in RareLines}
        \cup {<<json_dumps(SessionA), x>> : x \in RareLines}
        \cup {<<x, json_dumps(SessionA)>> : x \in RareLines}

\* the logs that may lie at the first candidate, which only a recorder writes
ParentLogs == {<<json_dumps(Session(900, 90, 45, 900, <<IsoBody(9000)>>, Distraction("look away", 4)))>>}

\* the second candidate's logs when the first candidate exists and hides it
HiddenLogs == {<<>>, <<json_dumps(SessionA)>>}

\* fewer logs where the generator's steps interleave with the pass
RaceLogs == SeqUpTo({MalformedLine, json_dumps(SessionA)}, MaxLines - 1)

(* --------------------------- specifications ---------------------------- *)
InitFiles(parents, hidden, locals) ==
    \E has_parent, has_local \in BOOLEAN :
    \E parent \in parents, local \in (IF has_parent THEN hidden ELSE locals) :
        /\ fs = [p \in Paths |->
                    IF p = sessions_candidates[1]
                    THEN (IF has_parent THEN 1 ELSE NoInode)
                    ELSE (IF has_local THEN 2 ELSE NoInode)]
        /\ disk = [i \in Inodes |->
                    IF i = 1 /\ has_parent THEN parent
                    ELSE IF i = 2 /\ has_local THEN local
                    ELSE <<>>]

InitPrograms ==
    /\ gpc = "idle"
    /\ num_sessions = 0
    /\ gi = 0
    /\ gf = NoInode
    /\ runs = 0
    /\ s = EmptyDict
    /\ pc = "idle"
    /\ clicked = FALSE
    /\ sessions_path = NoPath
    /\ f = NoHandle
    /\ records = <<>>
    /\ df = <<>>
    /\ total_hours = NoFrac
    /\ avg_focus = NoFrac
    /\ longest = 0
    /\ df_ts = <<>>
    /\ distractions = <<>>
    /\ apps = <<>>
    /\ top_d = {}
    /\ top_a = {}
    /\ view = <<>>
    /\ ui = <<>>
    /\ warning = NoWarning
    /\ error = ""
    /\ seen_runs = 0

Init == InitFiles(ParentLogs, HiddenLogs, SampleLogs) /\ InitPrograms

Next == Pass \/ \E n \in 0..MaxN : Main(n)

Spec == Init /\ [][Next]_vars

InitRace == InitFiles(ParentLogs, HiddenLogs, RaceLogs) /\ InitPrograms

NextRace ==
    \/ Pass
    \/ \E n \in 0..MaxN : GenStart(n)
    \/ GenExists
    \/ GenUnlink
    \/ GenOpen
    \/ GenWrite
    \/ GenClose

SpecRace == InitRace /\ [][NextRace]_vars

InitGen ==
    /\ fs = [p \in Paths |-> NoInode]
    /\ disk = [i \in Inodes |-> <<>>]
    /\ InitPrograms

NextGen == GenerateSession

SpecGen == InitGen /\ [][NextGen]_vars

(* ------------------------------- claims -------------------------------- *)
\* the log the pass reads, as it lies on disk (under Spec no run of the
\* generator falls inside a pass, so this is what the pass has read or will)
log_read == disk[fs[sessions_path]]

\* no run of the generator ended since the pass began
pass_is_current == seen_runs = runs

rendered(element) == element \in Range(ui)

\* C1: after any sequence of runs main(N1) .. main(Nk) on the same path the
\* log holds exactly Nk lines, the lines the last run wrote, in order; nothing
\* of an earlier run or of an earlier log is left.
C1_LastRunReplacesLog ==
    runs >= 1 =>
        /\ exists(fs, out_path)
        /\ Len(disk[fs[out_path]]) = num_sessions
        /\ \A i \in DOMAIN disk[fs[out_path]] :
              /\ disk[fs[out_path]][i].kind = "json"
              /\ disk[fs[out_path]][i].value.ts = [run |-> runs, seq |-> i]

\* a second run with fewer records than the largest run allows has ended, and
\* the first run's file (inode 3) is gone
C1_Witness ==
    /\ runs = 2
    /\ num_sessions = 1
    /\ Len(disk[fs[out_path]]) = 1
    /\ fs[out_path] = 4
    /\ disk[3] = <<>>

\* the values of the lines of a log that are the text of one JSON object
RECURSIVE objects_of(_)
objects_of(lines) ==
    IF lines = <<>> THEN <<>>
    ELSE (IF Head(lines).kind = "json" /\ Head(lines).value.type = "dict"
          THEN <<Head(lines).value>> ELSE <<>>)
         \o objects_of(Tail(lines))

\* C2: the load keeps exactly the non-blank lines that parse as one JSON
\* object, in file order, and drops every other line; and no line of the log
\* aborts the load or the pass after it (reading a line and normalizing the
\* loaded records never raise).
C2_LoadKeepsObjectsNeverAborts ==
    /\ (pc = "check_records" /\ pass_is_current => records = objects_of(log_read))
    /\ error \notin {"UnicodeDecodeError", "AttributeError"}

\* C3: discovery takes the first candidate that exists (the earlier one when
\* both do); when none exists the pass shows one warning that names both
\* candidates and stops, with no card, chart or table rendered.
C3_FirstCandidateOrWarning ==
    /\ (pc \notin {"idle", "discover"} /\ pass_is_current =>
            sessions_path =
                IF exists(fs, sessions_candidates[1]) THEN sessions_candidates[1]
                ELSE IF exists(fs, sessions_candidates[2]) THEN sessions_candidates[2]
                ELSE NoPath)
    /\ (pc \in Terminal /\ sessions_path = NoPath =>
            /\ pc = "stopped"
            /\ error = ""
            /\ ui = <<"warning">>
            /\ warning.paths = sessions_candidates
            /\ warning # empty_warning)

\* no candidate exists, and the pass has stopped on the warning that names both
C3_Witness ==
    /\ pc = "stopped"
    /\ ~exists(fs, sessions_candidates[1])
    /\ ~exists(fs, sessions_candidates[2])
    /\ warning = missing_warning
    /\ ui = <<"warning">>

\* C4: every record generate_session returns has
\* 0 <= longestUnfocusedStreakSec <= totalUnfocusedSec <= totalDurationSec,
\* and the streak's range is never empty (randint never raises ValueError).
C4_StreakWithinUnfocusedWithinDuration ==
    /\ gpc # "ValueError"
    /\ gpc = "returned" =>
          /\ 0 <= s.longestUnfocusedStreakSec
          /\ s.longestUnfocusedStreakSec <= s.totalUnfocusedSec
          /\ s.totalUnfocusedSec <= s.totalDurationSec

\* the shortest session at the lowest ratio, with the longest streak its range
\* allows: 900 s, 45 s unfocused, a streak of 30 s
C4_Witness ==
    /\ gpc = "returned"
    /\ s.totalDurationSec = 900
    /\ s.totalUnfocusedSec = 45
    /\ s.longestUnfocusedStreakSec = 30

\* the sums the average is taken over, from the loaded records
total_duration == sum(records, "totalDurationSec")

total_unfocused == sum(records, "totalUnfocusedSec")

\* C5 as stated: the average focus ratio is 1 - sum(unfocused) / sum(duration)
\* when sum(duration) is not 0, and 1.0 when it is 0.
C5_AvgFocusGuardedAtZero ==
    rendered("card_avg_focus") =>
        IF total_duration # 0
        THEN FracEq(avg_focus, Frac(total_duration - total_unfocused, total_duration))
        ELSE FracEq(avg_focus, Frac(1, 1))

\* C5 as amended: the average focus ratio is 1 - sum(unfocused) / sum(duration)
\* when sum(duration) is greater than 0, and 1.0 otherwise (0 or negative); it
\* never divides by zero.
C5_AvgFocusGuardedAtPositive ==
    rendered("card_avg_focus") =>
        /\ avg_focus.den # 0
        /\ IF total_duration > 0
           THEN avg_focus.num * total_duration
                    = (total_duration - total_unfocused) * avg_focus.den
           ELSE avg_focus.num = avg_focus.den

\* records (3600, 900) and (1800, 900): the card shows 1 - 1800/5400 = 2/3
C5_Witness ==
    /\ rendered("card_avg_focus")
    /\ Len(df) = 2
    /\ df[1].totalDurationSec = 3600 /\ df[1].totalUnfocusedSec = 900
    /\ df[2].totalDurationSec = 1800 /\ df[2].totalUnfocusedSec = 900
    /\ 3 * avg_focus.num = 2 * avg_focus.den

\* the rows of the time-series view, without their focusPct
ts_rows == [i \in DOMAIN df_ts |-> df_ts[i].row]

\* how many rows of a frame satisfy a test on the row's index
count(frame, test(_)) == Cardinality({i \in DOMAIN frame : test(i)})

\* a text with its trailing Z, if it has one, stripped
strip_trailing_Z(x) ==
    IF x # <<>> /\ x[Len(x)].c = "Z" THEN SubSeq(x, 1, Len(x) - 1) ELSE x

\* sessionEnd is missing, or is no ISO-8601 timestamp once a trailing Z is
\* stripped
end_unparseable(r) ==
    \/ "sessionEnd" \notin r.keys
    \/ ~IsIso(strip_trailing_Z(r.sessionEnd))

\* C6: a loaded record whose sessionEnd is missing or does not parse as an
\* ISO-8601 timestamp after stripping a trailing Z gets a null sessionEnd_dt
\* and is kept: it counts in the total sessions and in the sums, and is left
\* out of the time-series view only; the view holds exactly the records with
\* a parsed end timestamp, sorted ascending by it.
C6_UnparseableEndNulledAndKept ==
    /\ \A i \in DOMAIN df :
          end_unparseable(df[i]) => df[i].sessionEnd_dt = None
    /\ (df # <<>> /\ pass_is_current => Len(df) = Len(objects_of(log_read)))
    /\ rendered("chart_focus") =>
          /\ \A i \in DOMAIN df :
                LET same(j) == df[j] = df[i]
                    shown(j) == ts_rows[j] = df[i]
                IN  count(ts_rows, shown)
                        = IF df[i].sessionEnd_dt.ok THEN count(df, same) ELSE 0
          /\ Len(ts_rows) = Cardinality({i \in DOMAIN df : df[i].sessionEnd_dt.ok})
          /\ \A i, j \in DOMAIN ts_rows :
                i <= j => ts_rows[i].sessionEnd_dt.t <= ts_rows[j].sessionEnd_dt.t

\* how many loaded records carry a mostCommonDistraction object whose
\* activity is a
carrying(a) ==
    Cardinality({i \in DOMAIN df :
        /\ "mostCommonDistraction" \in df[i].keys
        /\ df[i].mostCommonDistraction.type = "dict"
        /\ "activity" \in df[i].mostCommonDistraction.keys
        /\ df[i].mostCommonDistraction.activity = a})

Activities ==
    {df[i].mostCommonDistraction.activity : i \in DOMAIN df}

\* the distraction counts are the number of records per distinct activity
\* among the records that carry the object; the cards count every record
counts_and_cards ==
    /\ rendered("chart_distractions") =>
          /\ \A row \in top_d : row.count = carrying(row.value) /\ row.count > 0
          /\ \A a \in Activities : carrying(a) > 0 => \E row \in top_d : row.value = a
    /\ (rendered("card_total_sessions") /\ pass_is_current =>
            Len(df) = Len(objects_of(log_read)))
    /\ (rendered("card_total_time") /\ pass_is_current =>
            total_hours.num = sum(objects_of(log_read), "totalDurationSec"))

\* C7 as stated: in every render of a log with a valid record, a record
\* without a mostCommonDistraction object adds nothing to the distraction
\* counts, is counted in total sessions and total time, and does not keep the
\* pass from completing (reading the column never raises).
C7_MissingDistractionNeverFatal ==
    /\ counts_and_cards
    /\ error # "KeyError: mostCommonDistraction"

\* C7 as amended: the same, with the pass getting past the distraction column
\* whenever at least one loaded record carries the key; when no record
\* carries it, reading the column raises KeyError and the pass ends there.
C7_MissingDistractionFatalOnlyWhenAllMiss ==
    /\ counts_and_cards
    /\ (error = "KeyError: mostCommonDistraction" =>
            \A i \in DOMAIN df : "mostCommonDistraction" \notin df[i].keys)
    /\ (pc \in {"colA", "colB", "table", "done"} =>
            \E i \in DOMAIN df : "mostCommonDistraction" \in df[i].keys)

\* a pass has drawn the distraction chart from a log in which one record has
\* no mostCommonDistraction and another has one
C7_Witness ==
    /\ rendered("chart_distractions")
    /\ rendered("card_total_time")
    /\ \E i \in DOMAIN df : "mostCommonDistraction" \notin df[i].keys
    /\ top_d # {}

\* C8: when the discovered log exists but holds no valid record (it is empty,
\* or every line is blank or malformed), the pass shows the "No valid session
\* records" warning, which is not the missing-file warning, and stops before
\* any card, chart or table.
C8_NoValidRecordsWarning ==
    (/\ pc \in Terminal
     /\ pass_is_current
     /\ sessions_path # NoPath
     /\ \A i \in DOMAIN log_read : log_read[i].kind \in {"blank", "malformed"})
    => /\ pc = "stopped"
       /\ error = ""
       /\ warning = empty_warning
       /\ warning # missing_warning
       /\ ui = <<"warning">>

\* a log of one blank and one malformed line has been read, and the pass has
\* stopped on the warning
C8_Witness ==
    /\ pc = "stopped"
    /\ sessions_path # NoPath
    /\ pass_is_current
    /\ log_read = <<BlankLine, MalformedLine>>
    /\ warning = empty_warning

\* C9: after a run main(N) with N >= 1 has ended and nothing else wrote, the
\* next pass loads exactly the N records of that run and shows N as the total
\* sessions, whatever lay at the candidate paths before the run.
C9_PassShowsLastRun ==
    (pc \in Terminal /\ pass_is_current /\ runs >= 1 /\ num_sessions >= 1)
    => /\ rendered("card_total_sessions")
       /\ Len(df) = num_sessions
       /\ \A i \in DOMAIN df : df[i].ts = [run |-> runs, seq |-> i]

\* C10: a pass that interleaves with a run of the generator on the same file
\* ends in a warning or a full render, never in an uncaught exception, and
\* its records all come from one run (or all from the log before the runs).
C10_RaceEndsInDocumentedOutcome ==
    /\ pc # "error"
    /\ \A i, j \in DOMAIN records : records[i].ts.run = records[j].ts.run

====
